---- MODULE Spec2Model ----
(***************************************************************************)
(* Model of the driver-business analysis scripts:                          *)
(*   - data_analysis_business.py : rule extraction (extract_info), the     *)
(*     classifier merge (llm_extract), location normalisation with the     *)
(*     persisted cache (normalize_area) and the flow statistics;           *)
(*   - visualize_business.py / demo.py : the flow-table filter used for    *)
(*     the Sankey chart (chart_flow, df_clean).                            *)
(* A Python str is modelled as a sequence of one-character strings, so     *)
(* that strip(), lower(), substring containment and the regular            *)
(* expressions are computed character by character.  The character U+1F4B0 *)
(* (money bag) is written "U+1F4B0".                                       *)
(***************************************************************************)
EXTENDS Integers, Sequences, FiniteSets, TLC

\* ----------------------------------------------------------------------
\* Bounds of the model
\* ----------------------------------------------------------------------
\* normalize_area calls (completed or crashed) over all runs
MaxCalls == 2
\* process starts (loads of the cache file)
MaxRuns == 2

\* ----------------------------------------------------------------------
\* str primitives
\* ----------------------------------------------------------------------
UpperCase == <<"A","B","C","D","E","F","G","H","I","J","K","L","M",
               "N","O","P","Q","R","S","T","U","V","W","X","Y","Z">>
LowerCase == <<"a","b","c","d","e","f","g","h","i","j","k","l","m",
               "n","o","p","q","r","s","t","u","v","w","x","y","z">>
Digits == {"0","1","2","3","4","5","6","7","8","9"}

\* str.lower() on one character
LowerChar(c) ==
    IF \E i \in 1..26 : UpperCase[i] = c
    THEN LowerCase[CHOOSE i \in 1..26 : UpperCase[i] = c]
    ELSE c

\* str.lower()
ToLower(s) == [i \in 1..Len(s) |-> LowerChar(s[i])]

\* characters str.strip() removes and \s matches
IsSpace(c) == c \in {" ", "\t", "\n", "\r"}

\* str.strip()
Strip(s) ==
    LET keep == {i \in 1..Len(s) : ~IsSpace(s[i])}
    IN  IF keep = {} THEN <<>>
        ELSE LET lo == CHOOSE i \in keep : \A j \in keep : i <= j
                 hi == CHOOSE i \in keep : \A j \in keep : j <= i
             IN  SubSeq(s, lo, hi)

\* sub occurs in s at position p
MatchAt(s, sub, p) ==
    /\ p >= 1
    /\ p + Len(sub) - 1 <= Len(s)
    /\ \A j \in 1..Len(sub) : s[p + j - 1] = sub[j]

\* Python's  sub in s
Contains(s, sub) == \E p \in 1..(Len(s) + 1) : MatchAt(s, sub, p)

\* str.replace(c, "") for a one-character c
RemoveChar(s, c) ==
    LET F[i \in 0..Len(s)] ==
            IF i = 0 THEN <<>>
            ELSE IF s[i] = c THEN F[i-1] ELSE Append(F[i-1], s[i])
    IN  F[Len(s)]

\* ----------------------------------------------------------------------
\* Region normalisation: direct mapping, cache, service
\* ----------------------------------------------------------------------
\* the alias table, in the dict's insertion order
AREA_MAP == <<
    << <<"T", "o", "r", "o", "n", "t", "o">>, <<"U+591A", "U+4F26", "U+591A">> >>,  \* Toronto | 多伦多
    << <<"U+591A", "U+4F26", "U+591A">>, <<"U+591A", "U+4F26", "U+591A">> >>,  \* 多伦多 | 多伦多
    << <<"t", "o", "r", "o", "n", "t", "o">>, <<"U+591A", "U+4F26", "U+591A">> >>,  \* toronto | 多伦多
    << <<"N", "o", "r", "t", "h", " ", "Y", "o", "r", "k">>, <<"U+5317", "U+7EA6", "U+514B">> >>,  \* North York | 北约克
    << <<"U+5317", "U+7EA6", "U+514B">>, <<"U+5317", "U+7EA6", "U+514B">> >>,  \* 北约克 | 北约克
    << <<"n", "o", "r", "t", "h", "y", "o", "r", "k">>, <<"U+5317", "U+7EA6", "U+514B">> >>,  \* northyork | 北约克
    << <<"S", "c", "a", "r", "b", "o", "r", "o", "u", "g", "h">>, <<"U+58EB", "U+5609", "U+5821">> >>,  \* Scarborough | 士嘉堡
    << <<"U+58EB", "U+5609", "U+5821">>, <<"U+58EB", "U+5609", "U+5821">> >>,  \* 士嘉堡 | 士嘉堡
    << <<"s", "c", "a", "r", "b", "o", "r", "o", "u", "g", "h">>, <<"U+58EB", "U+5609", "U+5821">> >>,  \* scarborough | 士嘉堡
    << <<"M", "a", "r", "k", "h", "a", "m">>, <<"U+4E07", "U+9526">> >>,  \* Markham | 万锦
    << <<"U+4E07", "U+9526">>, <<"U+4E07", "U+9526">> >>,  \* 万锦 | 万锦
    << <<"m", "a", "r", "k", "h", "a", "m">>, <<"U+4E07", "U+9526">> >>,  \* markham | 万锦
    << <<"R", "i", "c", "h", "m", "o", "n", "d", " ", "H", "i", "l", "l">>, <<"U+5217", "U+6CBB", "U+6587", "U+5C71">> >>,  \* Richmond Hill | 列治文山
    << <<"U+5217", "U+6CBB", "U+6587", "U+5C71">>, <<"U+5217", "U+6CBB", "U+6587", "U+5C71">> >>,  \* 列治文山 | 列治文山
    << <<"M", "i", "s", "s", "i", "s", "s", "a", "u", "g", "a">>, <<"U+5BC6", "U+897F", "U+6C99", "U+52A0">> >>,  \* Mississauga | 密西沙加
    << <<"U+5BC6", "U+897F", "U+6C99", "U+52A0">>, <<"U+5BC6", "U+897F", "U+6C99", "U+52A0">> >>,  \* 密西沙加 | 密西沙加
    << <<"E", "t", "o", "b", "i", "c", "o", "k", "e">>, <<"U+6021", "U+9676", "U+78A7", "U+8C37">> >>,  \* Etobicoke | 怡陶碧谷
    << <<"U+76AE", "U+5C14", "U+900A">>, <<"U+76AE", "U+5C14", "U+900A", "U+673A", "U+573A">> >>,  \* 皮尔逊 | 皮尔逊机场
    << <<"P", "e", "a", "r", "s", "o", "n">>, <<"U+76AE", "U+5C14", "U+900A", "U+673A", "U+573A">> >>,  \* Pearson | 皮尔逊机场
    << <<"U+673A", "U+573A">>, <<"U+76AE", "U+5C14", "U+900A", "U+673A", "U+573A">> >>  \* 机场 | 皮尔逊机场
    >>

\* for k, v in AREA_MAP.items(): if k.lower() in orig_text.lower()
AliasHits(orig_text) ==
    {i \in 1..Len(AREA_MAP) :
        Contains(ToLower(orig_text), ToLower(AREA_MAP[i][1]))}

DirectHit(orig_text) == AliasHits(orig_text) # {}

\* the value of the first alias, in table order, the text contains
DirectMap(orig_text) ==
    LET i == CHOOSE i \in AliasHits(orig_text) :
                 \A j \in AliasHits(orig_text) : i <= j
    IN  AREA_MAP[i][2]

\* lines 72-80 with the cache consulted before the alias table
LookupPath_CacheFirst(hit, cached) ==
    IF cached THEN "cache" ELSE IF hit THEN "map" ELSE "miss"

\* lines 72-80 without the cache branch
LookupPath_NoCache(hit, cached) ==
    IF hit THEN "map" ELSE "miss"

\* the lookup without the AREA_MAP loop of lines 72-75
LookupPath_NoMap(hit, cached) ==
    IF cached THEN "cache" ELSE "miss"

\* lines 72-80: the for/else over AREA_MAP first, then  orig_text in
\* area_cache, then the service
LookupPath(hit, cached) ==
    IF hit THEN "map" ELSE IF cached THEN "cache" ELSE "miss"

\* area_cache is a dict: a sequence of <<key, value>> in insertion order
InCache(cache, key) == \E i \in 1..Len(cache) : cache[i][1] = key

CacheGet(cache, key) ==
    cache[CHOOSE i \in 1..Len(cache) : cache[i][1] = key][2]

\* area_cache[orig_text] = norm
CacheSet(cache, key, val) ==
    IF InCache(cache, key)
    THEN [i \in 1..Len(cache) |->
             IF cache[i][1] = key THEN <<key, val>> ELSE cache[i]]
    ELSE Append(cache, <<key, val>>)

CacheKeys(cache) == {cache[i][1] : i \in 1..Len(cache)}

\* The cache file is a sequence of tokens: json.dump writes "{", one token
\* per entry and "}"; a write that stops early leaves a prefix of them.
TokOpen == [tok |-> "{", k |-> <<>>, v |-> <<>>]
TokClose == [tok |-> "}", k |-> <<>>, v |-> <<>>]
TokPair(e) == [tok |-> "pair", k |-> e[1], v |-> e[2]]

\* json.dump(area_cache, f, ensure_ascii=False, indent=2)
JsonDump(cache) ==
    <<TokOpen>> \o [i \in 1..Len(cache) |-> TokPair(cache[i])] \o <<TokClose>>

\* json.load succeeds on the text
JsonWellFormed(content) ==
    /\ Len(content) >= 2
    /\ content[1] = TokOpen
    /\ content[Len(content)] = TokClose
    /\ \A i \in 2..(Len(content) - 1) : content[i].tok = "pair"

\* json.load(f) of a well-formed text
JsonLoad(content) ==
    [i \in 1..(Len(content) - 2) |-> <<content[i+1].k, content[i+1].v>>]

NoFile == [exists |-> FALSE, content |-> <<>>]
FileOf(content) == [exists |-> TRUE, content |-> content]

\* resp.choices[0].message.content.strip().replace("。", ""), then
\* norm if norm else orig_text
NormOfAnswer(content, orig_text) ==
    LET norm == RemoveChar(Strip(content), "U+3002")  \* 。
    IN  IF norm # <<>> THEN norm ELSE orig_text

\* ---- inputs of the cache model ----
T_TorontoDowntown == <<"T", "o", "r", "o", "n", "t", "o", " ", "d", "o", "w", "n", "t", "o", "w", "n">>
T_HamiltonPadded == <<" ", "H", "a", "m", "i", "l", "t", "o", "n", " ">>
T_Hamilton == <<"H", "a", "m", "i", "l", "t", "o", "n">>
T_hamilton == <<"h", "a", "m", "i", "l", "t", "o", "n">>
T_Empty == <<>>
V_Hamilton == <<"U+6C49", "U+5BC6", "U+5C14", "U+987F">>  \* 汉密尔顿
V_Scarborough == <<"U+58EB", "U+5609", "U+5821">>  \* 士嘉堡

\* location strings handed to normalize_area
RawTexts ==
    <<T_TorontoDowntown, T_HamiltonPadded, T_Hamilton, T_hamilton, T_Empty>>
\* the canonical names: the values of AREA_MAP, in the order of the table
CanonTexts ==
    << <<"U+591A", "U+4F26", "U+591A">>,  \* 多伦多
       <<"U+5317", "U+7EA6", "U+514B">>,  \* 北约克
       <<"U+58EB", "U+5609", "U+5821">>,  \* 士嘉堡
       <<"U+4E07", "U+9526">>,  \* 万锦
       <<"U+5217", "U+6CBB", "U+6587", "U+5C71">>,  \* 列治文山
       <<"U+5BC6", "U+897F", "U+6C99", "U+52A0">>,  \* 密西沙加
       <<"U+6021", "U+9676", "U+78A7", "U+8C37">>,  \* 怡陶碧谷
       <<"U+76AE", "U+5C14", "U+900A", "U+673A", "U+573A">> >>  \* 皮尔逊机场

\* every string normalize_area is called with in the model; those of
\* RawTexts come first
AllTexts == RawTexts \o CanonTexts
TextIds == 1..Len(AllTexts)
RunTextIds == 1..Len(RawTexts)
CanonTextIds == TextIds \ RunTextIds

\* message.content of the service's answers
Answers == { <<"U+6C49", "U+5BC6", "U+5C14", "U+987F", "U+3002">>, <<" ", "U+54C8", "U+5BC6", "U+5C14", "U+987F", " ">>, <<>> }  \* 汉密尔顿。 |  哈密尔顿 

\* the service call of one normalize_area: an answer, or an exception
RAISE == [raise |-> TRUE, content |-> <<>>]
Answer(c) == [raise |-> FALSE, content |-> c]
ServiceOutcomes == {RAISE} \cup {Answer(c) : c \in Answers}

\* cache files a run can find at start: none, a zero-length file, and files
\* written by earlier runs (one of them holding an entry whose key contains
\* an alias that the table resolves differently)
InitFiles ==
    { NoFile,
      FileOf(<<>>),
      FileOf(JsonDump(<<>>)),
      FileOf(JsonDump(<< <<T_TorontoDowntown, V_Scarborough>> >>)),
      FileOf(JsonDump(<< <<T_Hamilton, V_Hamilton>> >>)) }


\* ----------------------------------------------------------------------
\* Rule extraction: extract_info (lines 102-146)
\* ----------------------------------------------------------------------
\* the characters of the range 一-龥 that occur in the model's texts
CJKChars ==
    {
      "U+4E00", "U+4E07", "U+4E1A", "U+4E70", "U+4EBA", "U+4ECE", "U+4EE3", "U+4F26", "U+4F60", "U+514B",  \* 一 万 业 买 人 从 代 伦 你 克
      "U+5176", "U+5217", "U+5230", "U+529E", "U+52A0", "U+52A1", "U+5305", "U+5317", "U+533A", "U+53D6",  \* 其 列 到 办 加 务 包 北 区 取
      "U+53EB", "U+54C8", "U+5609", "U+573A", "U+578B", "U+57DF", "U+5821", "U+58EB", "U+591A", "U+597D",  \* 叫 哈 嘉 场 型 域 堡 士 多 好
      "U+5B58", "U+5B83", "U+5BB6", "U+5BC4", "U+5BC6", "U+5C14", "U+5C71", "U+6021", "U+62B1", "U+63A5",  \* 存 它 家 寄 密 尔 山 怡 抱 接
      "U+642C", "U+6587", "U+65E5", "U+673A", "U+674E", "U+6B49", "U+6C49", "U+6C99", "U+6CBB", "U+6E38",  \* 搬 文 日 机 李 歉 汉 沙 治 游
      "U+7535", "U+76AE", "U+78A7", "U+7C7B", "U+7EA6", "U+817F", "U+884C", "U+897F", "U+8BDD", "U+8C37",  \* 电 皮 碧 类 约 腿 行 西 话 谷
      "U+8D2D", "U+8DD1", "U+8F66", "U+8FD0", "U+9001", "U+900A", "U+9192", "U+9526", "U+9676", "U+987F"  \* 购 跑 车 运 送 逊 醒 锦 陶 顿
    }

IsDigit(c) == c \in Digits
IsLetter(c) == \E i \in 1..26 : c = UpperCase[i] \/ c = LowerCase[i]

\* the class [一-龥a-zA-Z0-9 ,#\-] of the origin/destination pattern
IsAddrChar(c) ==
    \/ c \in CJKChars
    \/ IsLetter(c)
    \/ IsDigit(c)
    \/ c \in {" ", ",", "#", "-"}

\* the character classes \s, \S, \d and the address class
InClass(c, cls) ==
    CASE cls = "space" -> IsSpace(c)
      [] cls = "nonspace" -> ~IsSpace(c)
      [] cls = "digit" -> IsDigit(c)
      [] cls = "addr" -> IsAddrChar(c)

\* the last position of the longest run of characters of class cls that
\* starts at p (p - 1 when the run is empty)
RunEnd(s, p, cls) ==
    LET stop == {q \in p..(Len(s) + 1) :
                    q = Len(s) + 1 \/ ~InClass(s[q], cls)}
    IN  (CHOOSE q \in stop : \A r \in stop : q <= r) - 1

Min(S) == CHOOSE x \in S : \A y \in S : x <= y
Max(S) == CHOOSE x \in S : \A y \in S : y <= x

\* the ordered category rules of lines 104-117: keywords, category
TypeRules ==
    <<
       << << <<"U+63A5", "U+673A">>, <<"U+9001", "U+673A">> >>,  \* 接机 | 送机
          <<"U+63A5", "U+9001", "U+673A">> >>,  \* 接送机
       << << <<"U+5305", "U+8F66">>, <<"U+4E00", "U+65E5", "U+6E38">>, <<"U+591A", "U+65E5", "U+6E38">>, <<"U+5305", "U+65E5">> >>,  \* 包车 | 一日游 | 多日游 | 包日
          <<"U+5305", "U+8F66">> >>,  \* 包车
       << << <<"U+8DD1", "U+817F">>, <<"U+4EE3", "U+4E70">>, <<"U+4EE3", "U+53D6">>, <<"U+4EE3", "U+9001">>, <<"U+4EE3", "U+8D2D">> >>,  \* 跑腿 | 代买 | 代取 | 代送 | 代购
          <<"U+8DD1", "U+817F">> >>,  \* 跑腿
       << << <<"U+884C", "U+674E", "U+5BC4", "U+5B58">>, <<"U+5BC4", "U+5B58">> >>,  \* 行李寄存 | 寄存
          <<"U+884C", "U+674E", "U+5BC4", "U+5B58">> >>,  \* 行李寄存
       << << <<"U+642C", "U+5BB6">>, <<"U+642C", "U+8FD0">> >>,  \* 搬家 | 搬运
          <<"U+642C", "U+5BB6">> >>,  \* 搬家
       << << <<"U+7535", "U+8BDD">>, <<"U+53EB", "U+9192">>, <<"U+53EB", "U+4EBA">> >>,  \* 电话 | 叫醒 | 叫人
          <<"U+4EE3", "U+529E", "/", "U+5176", "U+5B83">> >>  \* 代办/其它
    >>

\* re.search of a rule's alternation of literals
RuleMatches(text, r) ==
    \E k \in 1..Len(TypeRules[r][1]) : Contains(text, TypeRules[r][1][k])

\* lines 104-117: the category of the first rule that matches, else ""
BizType(text) ==
    LET hits == {r \in 1..Len(TypeRules) : RuleMatches(text, r)}
    IN  IF hits = {} THEN <<>> ELSE TypeRules[Min(hits)][2]

\* the alternation of the region pattern, in its order (line 120)
AreaAlts ==
    <<
       <<"U+591A", "U+4F26", "U+591A">>,  \* 多伦多
       <<"T", "o", "r", "o", "n", "t", "o">>,
       <<"U+76AE", "U+5C14", "U+900A">>,  \* 皮尔逊
       <<"M", "a", "r", "k", "h", "a", "m">>,
       <<"R", "i", "c", "h", "m", "o", "n", "d", " ", "H", "i", "l", "l">>,
       <<"U+4E07", "U+9526">>,  \* 万锦
       <<"S", "c", "a", "r", "b", "o", "r", "o", "u", "g", "h">>,
       <<"U+58EB", "U+5609", "U+5821">>,  \* 士嘉堡
       <<"U+7EA6", "U+514B">>,  \* 约克
       <<"N", "o", "r", "t", "h", " ", "Y", "o", "r", "k">>,
       <<"E", "t", "o", "b", "i", "c", "o", "k", "e">>,
       <<"U+5BC6", "U+897F", "U+6C99", "U+52A0">>,  \* 密西沙加
       <<"M", "i", "s", "s", "i", "s", "s", "a", "u", "g", "a">>,
       <<"U+673A", "U+573A">>  \* 机场
    >>

\* lines 119-122: re.search(..., re.I).group(0), else "": the leftmost
\* position where an alternative matches ignoring case, and there the first
\* alternative in pattern order; the slice of the text itself is returned
AreaStruct(text) ==
    LET low == ToLower(text)
        at(p) == {a \in 1..Len(AreaAlts) : MatchAt(low, ToLower(AreaAlts[a]), p)}
        pos == {p \in 1..Len(text) : at(p) # {}}
    IN  IF pos = {} THEN <<>>
        ELSE LET p == Min(pos)
                 a == Min(at(p))
             IN  SubSeq(text, p, p + Len(AreaAlts[a]) - 1)

\* lines 124-125: [U+1F4B0 or $](\d+(\.\d+)?) , group 1 of the leftmost match
AmountStruct(text) ==
    LET pos == {p \in 1..(Len(text) - 1) :
                   /\ text[p] \in {"U+1F4B0", "$"}  \* 💰
                   /\ IsDigit(text[p + 1])}
    IN  IF pos = {} THEN <<>>
        ELSE LET p == Min(pos)
                 e1 == RunEnd(text, p + 1, "digit")
                 frac == /\ e1 + 2 <= Len(text)
                         /\ text[e1 + 1] = "."
                         /\ IsDigit(text[e1 + 2])
                 e2 == IF frac THEN RunEnd(text, e1 + 2, "digit") ELSE e1
             IN  SubSeq(text, p + 1, e2)

\* the separators (?:到|—|-|－|——) in the order the regex tries them
AddrSeps == << <<"U+5230">>, <<"U+2014">>, <<"-">>, <<"U+FF0D">>, <<"U+2014", "U+2014">> >>  \* 到 | — | - | － | ——

\* The ways the pattern of line 128 matches with 从 at position i:
\* <<a, g, k, b>> = whitespace skipped by the first \s*, length of group 1,
\* separator alternative, whitespace skipped by the second \s*; group 2
\* then takes the longest run of class characters, at least one.
AddrMatches(text, i) ==
    IF text[i] # "U+4ECE" THEN {}  \* 从
    ELSE
      LET n == Len(text)
          w1 == RunEnd(text, i + 1, "space") - i
          ws == Cardinality({q \in 1..n : IsSpace(text[q])})
      IN  {m \in (0..w1) \X (1..n) \X (1..Len(AddrSeps)) \X (0..ws) :
              LET s1 == i + 1 + m[1]
                  sp == s1 + m[2]
                  s2 == sp + Len(AddrSeps[m[3]]) + m[4]
              IN  /\ sp <= n
                  /\ MatchAt(text, AddrSeps[m[3]], sp)
                  /\ s2 <= n
                  /\ IsAddrChar(text[s2])
                  /\ \A q \in (s2 - m[4])..(s2 - 1) : IsSpace(text[q])
                  /\ \A q \in s1..(sp - 1) : IsAddrChar(text[q])}

\* the match the backtracking engine finds first: \s* greedy, group 1 lazy,
\* alternatives in order, \s* greedy
AddrFirst(M) ==
    LET a == Max({m[1] : m \in M})
        Ma == {m \in M : m[1] = a}
        g == Min({m[2] : m \in Ma})
        Mg == {m \in Ma : m[2] = g}
        k == Min({m[3] : m \in Mg})
        Mk == {m \in Mg : m[3] = k}
        b == Max({m[4] : m \in Mk})
    IN  <<a, g, k, b>>

\* lines 127-133: addresses[0] of re.findall, else ("", "")
Addresses(text) ==
    LET starts == {i \in 1..Len(text) : AddrMatches(text, i) # {}}
    IN  IF starts = {} THEN << <<>>, <<>> >>
        ELSE LET i == Min(starts)
                 m == AddrFirst(AddrMatches(text, i))
                 s1 == i + 1 + m[1]
                 sp == s1 + m[2]
                 s2 == sp + Len(AddrSeps[m[3]]) + m[4]
             IN  << SubSeq(text, s1, sp - 1),
                    SubSeq(text, s2, RunEnd(text, s2, "addr")) >>

\* lines 102-146 (the field 时间_struct, which nothing downstream reads, is
\* left out)
extract_info(text) ==
    LET addresses == Addresses(text)
    IN  [type_ |-> BizType(text),
         area_ |-> AreaStruct(text),
         amount |-> AmountStruct(text),
         start |-> addresses[1],
         end |-> addresses[2]]

\* ----------------------------------------------------------------------
\* Classifier fallback: llm_extract and the merge (lines 148-192)
\* ----------------------------------------------------------------------
\* lines 171-174: re.search(label[:：]\s*(\S+), ans).group(1), else ""
LlmField(ans, label) ==
    LET n == Len(label)
        pos == {p \in 1..Len(ans) :
                   /\ MatchAt(ans, label, p)
                   /\ p + n <= Len(ans)
                   /\ ans[p + n] \in {":", "U+FF1A"}  \* ：
                   /\ RunEnd(ans, p + n + 1, "space") < Len(ans)}
    IN  IF pos = {} THEN <<>>
        ELSE LET q == RunEnd(ans, Min(pos) + n + 1, "space") + 1
             IN  SubSeq(ans, q, RunEnd(ans, q, "nonspace"))

LabelType == <<"U+4E1A", "U+52A1", "U+7C7B", "U+578B">>  \* 业务类型
LabelArea == <<"U+533A", "U+57DF">>  \* 区域

\* lines 170-179: the row llm_extract appends for an answer of the service
ParseAnswer(content) ==
    LET ans == Strip(content)
    IN  [type_ |-> LlmField(ans, LabelType), area_ |-> LlmField(ans, LabelArea)]

\* lines 180-182: the row appended when the call raises
EmptyRow == [type_ |-> <<>>, area_ |-> <<>>]

\* every row taken as unresolved
ToLlmIdx_All(results) ==
    [i \in 1..Len(results) |-> i]

\* line 149: the rows whose rule category or rule region is ""
ToLlmIdx(results) ==
    LET F[i \in 0..Len(results)] ==
            IF i = 0 THEN <<>>
            ELSE IF results[i].type_ = <<>> \/ results[i].area_ = <<>>
                 THEN Append(F[i - 1], i)
                 ELSE F[i - 1]
    IN  F[Len(results)]

\* lines 161-182: the try/except is inside the for loop of llm_extract, so
\* after an item whose call raised (a = 0) the loop goes on with the next item
LoopAfter_Abort(a) == IF a = 0 THEN "aborted" ELSE "llm"

LoopAfter(a) == "llm"

\* lines 176-182: the row appended for the outcome a of the service call
LlmRowOf(a, parsed) == IF a = 0 THEN EmptyRow ELSE parsed[a]

\* line 186: batch size of the classifier calls
BatchSize == 10

\* slices that start every BatchSize - 1 items: each holds again the last
\* item of the slice before it
Batches_Overlap(targets) ==
    [b \in 1..((Len(targets) + BatchSize - 2) \div (BatchSize - 1)) |->
        SubSeq(targets, (b - 1) * (BatchSize - 1) + 1,
               IF (b - 1) * (BatchSize - 1) + BatchSize < Len(targets)
               THEN (b - 1) * (BatchSize - 1) + BatchSize
               ELSE Len(targets))]

\* line 186: [llm_targets[i:i+10] for i in range(0, len(llm_targets), 10)]
Batches(targets) ==
    [b \in 1..((Len(targets) + BatchSize - 1) \div BatchSize) |->
        SubSeq(targets, (b - 1) * BatchSize + 1,
               IF b * BatchSize < Len(targets) THEN b * BatchSize
               ELSE Len(targets))]

\* the batches lined up last batch first
ConcatBatches_Reversed(bs) ==
    LET F[b \in 0..Len(bs)] == IF b = 0 THEN <<>> ELSE bs[b] \o F[b - 1]
    IN  F[Len(bs)]

\* line 187: the order in which pd.concat lines up the batches' rows
ConcatBatches(bs) ==
    LET F[b \in 0..Len(bs)] == IF b = 0 THEN <<>> ELSE F[b - 1] \o bs[b]
    IN  F[Len(bs)]

\* line 188: extract_results.loc[to_llm_idx, [业务类型_struct, 区域_struct]]
\* = llm_out.values, for one row
MergeRow(row, llm_row) ==
    [row EXCEPT !.type_ = llm_row.type_, !.area_ = llm_row.area_]

\* ---- inputs of the merge model ----
\* 订单概述 values of the input rows
MergeTexts ==
    << <<"U+63A5", "U+673A", " ", "U+1F4B0", "8", "0">>,  \* 接机 💰80
       <<"M", "a", "r", "k", "h", "a", "m">>,
       <<"h", "e", "l", "l", "o">>,
       <<"U+591A", "U+4F26", "U+591A", "U+5305", "U+8F66">>,  \* 多伦多包车
       <<>>,
       <<"U+9001", "U+673A", "U+8DD1", "U+817F">> >>  \* 送机跑腿

\* message.content of the classification service's answers
LlmAnswers ==
    << <<"U+4E1A", "U+52A1", "U+7C7B", "U+578B", ":", " ", "U+5305", "U+8F66", "\n", "U+533A", "U+57DF", ":", " ", "U+4E07", "U+9526">>,  \* 业务类型: 包车\n区域: 万锦
       <<"U+4E1A", "U+52A1", "U+7C7B", "U+578B", "U+FF1A", "U+8DD1", "U+817F">>,  \* 业务类型：跑腿
       <<"U+62B1", "U+6B49">> >>  \* 抱歉

\* rows of the input table
MaxRecords == 2

\* a table with more unresolved rows than one batch holds (eleven, and one
\* resolved row among them), as indices into MergeTexts
LongTables == {<<1, 2, 3, 4, 5, 6, 1, 2, 3, 5, 6, 2>>}

\* ----------------------------------------------------------------------
\* Flow tables: 流向统计 (data_analysis_business.py, lines 299-301) and the
\* filter of chart_flow / df_clean (visualize_business.py, demo.py)
\* ----------------------------------------------------------------------
\* cells of a DataFrame: a str or NaN; a volume that is a number, a text
\* pd.to_numeric cannot read, or NaN
Str(chars) == [na |-> FALSE, s |-> chars]
NaN == [na |-> TRUE, s |-> <<>>]
Num(n) == [kind |-> "num", n |-> n]
Text == [kind |-> "text", n |-> 0]
NaNVal == [kind |-> "na", n |-> 0]

\* line 300: df.groupby([起点归一, 终点归一]).size() - one row per distinct
\* pair, with the number of records
FlowStatsOf(pairs) ==
    {[src |-> Str(pr[1]), tgt |-> Str(pr[2]),
      val |-> Num(Cardinality({i \in 1..Len(pairs) : pairs[i] = pr}))] :
        pr \in {pairs[i] : i \in 1..Len(pairs)}}

\* load_sheets (visualize_business.py, lines 32-34): the sheet read back by
\* pd.read_excel; an empty cell comes back as NaN
SheetCell(c) == IF c.s = <<>> THEN NaN ELSE c
SheetRows(table) ==
    LET rows == {[src |-> SheetCell(r.src), tgt |-> SheetCell(r.tgt),
                  val |-> r.val] : r \in table}
    IN  CHOOSE q \in [1..Cardinality(rows) -> rows] :
            {q[i] : i \in 1..Cardinality(rows)} = rows

\* .dropna(), .assign(strip, strip, to_numeric(errors="coerce")), .dropna():
\* the indices of the rows that remain
CleanRows(rows) ==
    {i \in 1..Len(rows) :
        /\ ~rows[i].src.na
        /\ ~rows[i].tgt.na
        /\ rows[i].val.kind = "num"}

SumOver(rows, idx) ==
    LET F[i \in 0..Len(rows)] ==
            IF i = 0 THEN 0
            ELSE IF i \in idx THEN F[i - 1] + rows[i].val.n ELSE F[i - 1]
    IN  F[Len(rows)]

\* the filter with the threshold applied to each row before the grouping
FlowFilter_RowThreshold(rows, min_value) ==
    LET keep == {i \in CleanRows(rows) :
                    /\ Strip(rows[i].src.s) # Strip(rows[i].tgt.s)
                    /\ rows[i].val.n >= min_value}
        keys == {<<Strip(rows[i].src.s), Strip(rows[i].tgt.s)>> : i \in keep}
    IN  {[src |-> k[1], tgt |-> k[2],
          val |-> SumOver(rows, {i \in keep :
                     <<Strip(rows[i].src.s), Strip(rows[i].tgt.s)>> = k})] :
            k \in keys}

\* chart_flow lines 156-167 (demo.py lines 126-139 with min_value = 3):
\* clean, drop origin = destination, group by the pair summing the volume,
\* keep the groups whose sum is >= min_value
FlowFilter(rows, min_value) ==
    LET keep == {i \in CleanRows(rows) :
                    Strip(rows[i].src.s) # Strip(rows[i].tgt.s)}
        keys == {<<Strip(rows[i].src.s), Strip(rows[i].tgt.s)>> : i \in keep}
        sum(k) == SumOver(rows, {i \in keep :
                     <<Strip(rows[i].src.s), Strip(rows[i].tgt.s)>> = k})
    IN  {[src |-> k[1], tgt |-> k[2], val |-> sum(k)] :
            k \in {k \in keys : sum(k) >= min_value}}

\* chart_flow's default min_value and the threshold of demo.py line 138
DefaultMinValue == 3

\* ---- inputs of the flow model ----
\* (起点归一, 终点归一) of canonical records
FlowPairs ==
    <<
       << <<"U+5BC6", "U+897F", "U+6C99", "U+52A0">>, <<"U+5BC6", "U+897F", "U+6C99", "U+52A0">> >>,  \* 密西沙加 | 密西沙加
       << <<"U+4E07", "U+9526">>, <<"U+591A", "U+4F26", "U+591A">> >>,  \* 万锦 | 多伦多
       << <<"U+591A", "U+4F26", "U+591A">>, <<"U+4E07", "U+9526">> >>,  \* 多伦多 | 万锦
       << <<>>, <<>> >>
    >>

\* rows of a table handed to the filter
FlowRows ==
    <<
       [src |-> Str(<<"U+5BC6", "U+897F", "U+6C99", "U+52A0">>),  \* 密西沙加
        tgt |-> Str(<<"U+5BC6", "U+897F", "U+6C99", "U+52A0">>),  \* 密西沙加
        val |-> Num(430)],
       [src |-> Str(<<"U+4E07", "U+9526">>),  \* 万锦
        tgt |-> Str(<<"U+591A", "U+4F26", "U+591A">>),  \* 多伦多
        val |-> Num(5)],
       [src |-> Str(<<"U+591A", "U+4F26", "U+591A">>),  \* 多伦多
        tgt |-> Str(<<"U+4E07", "U+9526">>),  \* 万锦
        val |-> Num(2)],
       [src |-> Str(<<" ", "U+591A", "U+4F26", "U+591A">>),  \*  多伦多
        tgt |-> Str(<<"U+4E07", "U+9526", " ">>),  \* 万锦 
        val |-> Num(1)],
       [src |-> Str(<<"U+4E07", "U+9526">>),  \* 万锦
        tgt |-> Str(<<"U+58EB", "U+5609", "U+5821">>),  \* 士嘉堡
        val |-> Num(3)],
       [src |-> Str(<<"U+4E07", "U+9526">>),  \* 万锦
        tgt |-> Str(<<"U+58EB", "U+5609", "U+5821">>),  \* 士嘉堡
        val |-> Text],
       [src |-> NaN,
        tgt |-> Str(<<"U+591A", "U+4F26", "U+591A">>),  \* 多伦多
        val |-> Num(4)],
       [src |-> Str(<<"U+58EB", "U+5609", "U+5821">>),  \* 士嘉堡
        tgt |-> Str(<<" ", "U+58EB", "U+5609", "U+5821">>),  \*  士嘉堡
        val |-> Num(7)],
       [src |-> Str(<<"U+4E07", "U+9526">>),  \* 万锦
        tgt |-> Str(<<"U+591A", "U+4F26", "U+591A">>),  \* 多伦多
        val |-> NaNVal]
    >>

\* thresholds the filter is called with
MinValues == {DefaultMinValue - 1, DefaultMinValue, DefaultMinValue + 1}

\* canonical records of a run, and rows of a table handed to the filter
MaxFlowRecords == 3
MaxFlowRows == 3

\* ----------------------------------------------------------------------
\* 字段融合 and the distribution tables (lines 210-297)
\* ----------------------------------------------------------------------
\* the coarse column replacing a derived category that is not empty
FuseRow_CoarseFirst(struct, coarse, has_col) ==
    IF has_col /\ coarse # <<>> THEN coarse ELSE struct

\* lines 212-214: 业务类型_结构化 of one row; has_col: the table has a column
\* 订单类型
FuseRow(struct, coarse, has_col) ==
    IF has_col /\ struct = <<>> THEN coarse ELSE struct

\* line 215: 业务类型_大类 = df.get("订单类型", "")
CoarseOf(coarse, has_col) == IF has_col THEN coarse ELSE <<>>

\* the counts without the rows whose value is ""
ValueCounts_DropEmpty(col) ==
    {<<v, Cardinality({i \in 1..Len(col) : col[i] = v})>> :
        v \in {col[i] : i \in 1..Len(col)} \ {<<>>}}

\* Series.value_counts(dropna=False): (value, number of rows) for every
\* distinct value of the column
ValueCounts(col) ==
    {<<v, Cardinality({i \in 1..Len(col) : col[i] = v})>> :
        v \in {col[i] : i \in 1..Len(col)}}

\* the value of a run of decimal digits
DigitVal(c) ==
    CHOOSE d \in 0..9 :
        <<"0", "1", "2", "3", "4", "5", "6", "7", "8", "9">>[d + 1] = c

IntVal(s) ==
    LET F[i \in 0..Len(s)] ==
            IF i = 0 THEN 0 ELSE 10 * F[i - 1] + DigitVal(s[i])
    IN  F[Len(s)]

\* lines 219-223: try_to_float on the text of a cell, for texts of the form
\* digits or digits.digits (anything else the model uses makes float()
\* raise); the number is kept as its integer part and whether a fraction
\* is left over
try_to_float(x) ==
    LET d1 == RunEnd(x, 1, "digit")
        frac == SubSeq(x, d1 + 2, Len(x))
    IN  IF d1 >= 1 /\ d1 = Len(x)
        THEN [ok |-> TRUE, int |-> IntVal(x), more |-> FALSE]
        ELSE IF /\ d1 >= 1 /\ d1 + 1 < Len(x) /\ x[d1 + 1] = "."
                /\ RunEnd(frac, 1, "digit") = Len(frac)
        THEN [ok |-> TRUE, int |-> IntVal(SubSeq(x, 1, d1)),
              more |-> IntVal(frac) > 0]
        ELSE [ok |-> FALSE, int |-> 0, more |-> FALSE]

\* lines 246-247: the finite edges of the amount bins; the last edge is
\* float('inf')
AmountEdges == <<0, 50, 100, 200, 500, 1000>>
\* lines 266-267: the edges of the rating bins
ScoreEdges == <<0, 3, 5, 8, 10>>

\* pd.cut(..., right=False): the number of the bin of a value, 0 for no bin.
\* The bin is the count of edges <= the value (searchsorted, side "right");
\* no bin when that count is 0 or reaches the number of edges. inf_top: an
\* edge float('inf') follows the edges given, which no number reaches.
Cut(v, edges, inf_top) ==
    IF ~v.ok THEN 0
    ELSE LET ids == Cardinality({i \in 1..Len(edges) : edges[i] <= v.int})
             n == IF inf_top THEN Len(edges) + 1 ELSE Len(edges)
         IN  IF ids = 0 \/ ids = n THEN 0 ELSE ids

\* cut.value_counts(sort=False): the rows of each bin, in the bins' order
BinCounts(col, edges, inf_top) ==
    [b \in 1..(IF inf_top THEN Len(edges) ELSE Len(edges) - 1) |->
        Cardinality({i \in 1..Len(col) :
                        Cut(try_to_float(col[i]), edges, inf_top) = b})]

\* ---- inputs of the report model ----
\* records after extraction and normalisation: 业务类型_struct, 订单类型,
\* 区域归一, 订单状态, 是否迟到, 司机, 金额_struct, 客户评分
ReportRows ==
    <<
       [struct |-> <<"U+63A5", "U+9001", "U+673A">>,  \* 接送机
        coarse |-> <<"U+5305", "U+8F66">>,  \* 包车
        area |-> <<"U+591A", "U+4F26", "U+591A">>,  \* 多伦多
        status |-> <<"U+5DF2", "U+5B8C", "U+6210">>,  \* 已完成
        late |-> <<"U+51C6", "U+65F6">>,  \* 准时
        driver |-> <<"U+5F20", "U+4E09">>,  \* 张三
        amount |-> <<"8", "0">>,
        score |-> <<"1", "0">>],
       [struct |-> <<>>,
        coarse |-> <<"U+8DD1", "U+817F">>,  \* 跑腿
        area |-> <<>>,
        status |-> <<"U+7F3A", "U+5931">>,  \* 缺失
        late |-> <<>>,
        driver |-> <<>>,
        amount |-> <<>>,
        score |-> <<"U+7F3A", "U+5931">>],  \* 缺失
       [struct |-> <<>>,
        coarse |-> <<>>,
        area |-> <<"U+4E07", "U+9526">>,  \* 万锦
        status |-> <<"U+5DF2", "U+5B8C", "U+6210">>,  \* 已完成
        late |-> <<"U+8FDF", "U+5230">>,  \* 迟到
        driver |-> <<"U+674E", "U+56DB">>,  \* 李四
        amount |-> <<"1", "0", "0", "0">>,
        score |-> <<"9", ".", "5">>],
       [struct |-> <<"U+8DD1", "U+817F">>,  \* 跑腿
        coarse |-> <<"U+8DD1", "U+817F">>,  \* 跑腿
        area |-> <<"U+591A", "U+4F26", "U+591A">>,  \* 多伦多
        status |-> <<"U+5DF2", "U+53D6", "U+6D88">>,  \* 已取消
        late |-> <<"U+51C6", "U+65F6">>,  \* 准时
        driver |-> <<"U+5F20", "U+4E09">>,  \* 张三
        amount |-> <<"4", "9", ".", "5">>,
        score |-> <<"0">>],
       [struct |-> <<"U+5305", "U+8F66">>,  \* 包车
        coarse |-> <<>>,
        area |-> <<"H", "a", "m", "i", "l", "t", "o", "n">>,
        status |-> <<"U+5DF2", "U+5B8C", "U+6210">>,  \* 已完成
        late |-> <<"U+51C6", "U+65F6">>,  \* 准时
        driver |-> <<"U+674E", "U+56DB">>,  \* 李四
        amount |-> <<"2", "5", "0", "0">>,
        score |-> <<"8">>],
       [struct |-> <<>>,
        coarse |-> <<"U+63A5", "U+9001", "U+673A">>,  \* 接送机
        area |-> <<"U+4E07", "U+9526">>,  \* 万锦
        status |-> <<"U+5DF2", "U+5B8C", "U+6210">>,  \* 已完成
        late |-> <<"U+8FDF", "U+5230">>,  \* 迟到
        driver |-> <<"U+5F20", "U+4E09">>,  \* 张三
        amount |-> <<"0">>,
        score |-> <<"3">>]
    >>

\* rows of the table the reports are made from
MaxReportRows == 3

\* ----------------------------------------------------------------------
\* Order numbers in the cleaning script (data_clean_business.py)
\* ----------------------------------------------------------------------
V_Missing == <<"U+7F3A", "U+5931">>  \* 缺失
V_Duplicate == <<"U+8BA2", "U+5355", "U+7F16", "U+53F7", "U+91CD", "U+590D">>  \* 订单编号重复

\* normalize_na, lines 70-76, on one cell: astype(str) turns NaN into "nan";
\* the values "nan", "None", "NaN", "" are replaced by 缺失; then strip
NormalizeNaCell(c) ==
    LET s == IF c.na THEN <<"n", "a", "n">> ELSE c.s
        r == IF s \in {<<"n", "a", "n">>, <<"N", "o", "n", "e">>,
                       <<"N", "a", "N">>, <<>>}
             THEN V_Missing ELSE s
    IN  Str(Strip(r))

\* clean_business_core, lines 291-300, on the column 订单编号
OrderNumberStep(col) ==
    [i \in 1..Len(col) |->
        LET missing_order == col[i].na \/ col[i].s = <<>>
            dup_mask == /\ \E j \in 1..Len(col) : j # i /\ col[j] = col[i]
                        /\ ~missing_order
        IN  IF missing_order THEN Str(V_Missing)
            ELSE IF dup_mask THEN Str(V_Duplicate)
            ELSE col[i]]

\* ---- inputs of the cleaning model ----
\* 订单编号 cells of the raw file
OrderNumbers ==
    << NaN,
       Str(<<>>),
       Str(<<"A", "1">>),
       Str(<<" ", "A", "1">>),
       Str(<<"A", "2">>),
       Str(<<" ">>) >>

\* rows of the raw file
MaxCleanRows == 3

\* ---- inputs of the extraction model ----
\* the order description of the end-to-end scenario
ScenarioText ==
    <<"U+4ECE", "U+5BC6", "U+897F", "U+6C99", "U+52A0", " ", "S", "q", "u", "a", "r", "e", " ", "O", "n", "e", " ", "U+5230", "T", "o", "r", "o", "n", "t", "o", " ", "d", "o", "w", "n", "t", "o", "w", "n", " ", "U+63A5", "U+673A", " ", "U+1F4B0", "8", "0">>  \* 从密西沙加 Square One 到Toronto downtown 接机 💰80

\* descriptions are put together from these pieces
Heads == { <<"U+4ECE">>,  \* 从
      <<"U+4ECE", " ">>,  \* 从 
      <<>> }
Origins == { <<"U+5BC6", "U+897F", "U+6C99", "U+52A0", " ", "S", "q", "u", "a", "r", "e", " ", "O", "n", "e">>,  \* 密西沙加 Square One
      <<"A", "-", "1">> }
Gaps == { <<" ">>,
      <<>> }
Separators == { <<"U+5230">>,  \* 到
      <<"U+2014", "U+2014">>,  \* ——
      <<"-">> }
Dests == { <<"T", "o", "r", "o", "n", "t", "o", " ", "d", "o", "w", "n", "t", "o", "w", "n">>,
      <<"U+673A", "U+573A", "\t">> }  \* 机场\t
Tails == { <<" ", "U+63A5", "U+673A", " ">>,  \*  接机 
      <<" ", "U+8DD1", "U+817F", " ", "U+63A5", "U+673A">>,  \*  跑腿 接机
      <<"U+3002", "U+5305", "U+8F66">>,  \* 。包车
      <<>> }
Amounts == { <<"U+1F4B0", "8", "0">>,  \* 💰80
      <<"$", "8", "0", ".", "5">>,
      <<>> }

\* descriptions that name a region: every alternative of the region pattern
\* on its own, and region words in running text and in other letter case
RegionTexts ==
    {AreaAlts[a] : a \in 1..Len(AreaAlts)}
    \cup
    { <<"U+5317", "U+7EA6", "U+514B", "U+63A5", "U+673A">>,  \* 北约克接机
      <<"N", "O", "R", "T", "H", " ", "Y", "O", "R", "K", " ", "U+9001", "U+673A">>,  \* NORTH YORK 送机
      <<"T", "O", "R", "O", "N", "T", "O", " ", "U+5305", "U+8F66">>,  \* TORONTO 包车
      <<"e", "t", "o", "b", "i", "c", "o", "k", "e">>,
      <<"U+9001", "U+673A", " ", "r", "i", "c", "h", "m", "o", "n", "d", " ", "h", "i", "l", "l">> }  \* 送机 richmond hill

ExtractTexts ==
    {h \o o \o g \o sep \o d \o tl \o am :
        h \in Heads, o \in Origins, g \in Gaps, sep \in Separators,
        d \in Dests, tl \in Tails, am \in Amounts}

\* ----------------------------------------------------------------------
\* State
\* ----------------------------------------------------------------------
VARIABLES
    \* -- normalisation cache (data_analysis_business.py, lines 52-99) --
    pc,            \* "boot": no process; "run": cache loaded; "fatal": load raised
    area_cache,    \* the in-memory dict
    cache_file,    \* CACHE_PATH on disk
    last,          \* the last normalize_area call that returned
    svc_calls,     \* this run: service requests made, per raw text (TextIds)
    returned,      \* this run: values normalize_area returned, per raw text
    answered,      \* this run: outcomes the service gave, per prompt (KeyId)
    durable,       \* entries whose insert and file write completed
    crashed,       \* some run has ended in a crash
    ncalls,
    nruns,
    \* -- rule extraction of one description --
    description,   \* the 订单概述 string
    result,        \* what extract_info returned for it
    \* -- classifier fallback and merge (lines 148-192) --
    mpc,           \* "rules", "llm", "merged" ("aborted": an exception left the script)
    orders,        \* df["订单概述"], as indices into MergeTexts
    rule_results,  \* extract_results as rule extraction left it (line 148)
    extract_results,
    llm_sent,      \* the descriptions handed to the service, in order
    llm_out,       \* the rows llm_extract has produced, batches concatenated
    llm_ans,       \* outcome of each service call: 0 raised, a > 0 LlmAnswers[a]
    \* -- flow tables --
    fpc,           \* "build", "report", "loaded", "charted" (chart_flow), "cleaned" (demo.py)
    flow_pairs,    \* (起点归一, 终点归一) of the records, indices into FlowPairs
    flow_report,   \* report_tables["流向统计"]
    flow_in,       \* the DataFrame handed to chart_flow / df_clean
    flow_min,      \* the threshold the filter ran with
    flow_out,      \* the filtered table the Sankey chart is drawn from
    \* -- 字段融合 and distribution tables --
    rpc,           \* "build", "fused", "reported"
    records,       \* rows of df, indices into ReportRows
    has_order_type,\* the table has a column 订单类型
    fused,         \* per row: 业务类型_结构化 and 业务类型_大类
    report_tables, \* the distribution tables
    \* -- cleaning script: the column 订单编号 --
    dpc,           \* "raw", "basic" (run_basic_pipeline done), "cleaned"
    raw_orders,    \* 订单编号 of the raw rows, indices into OrderNumbers
    order_col      \* the column 订单编号 of df

cvars == <<pc, area_cache, cache_file, last, svc_calls, returned, answered,
           durable, crashed, ncalls, nruns>>

evars == <<description, result>>

mvars == <<mpc, orders, rule_results, extract_results, llm_sent, llm_out,
           llm_ans>>

fvars == <<fpc, flow_pairs, flow_report, flow_in, flow_min, flow_out>>

rvars == <<rpc, records, has_order_type, fused, report_tables>>

dvars == <<dpc, raw_orders, order_col>>

vars == <<cvars, evars, mvars, fvars, rvars, dvars>>

\* the pure parts of normalize_area, tabulated over the model's inputs
StripOf == [t \in TextIds |-> Strip(AllTexts[t])]
Keys == {StripOf[t] : t \in TextIds}
\* the first raw text with the same trimmed form: one service prompt
KeyId == [t \in TextIds |->
             CHOOSE u \in TextIds :
                 /\ StripOf[u] = StripOf[t]
                 /\ \A w \in TextIds : StripOf[w] = StripOf[t] => u <= w]
DirectOf ==
    [k \in Keys |->
        [hit |-> DirectHit(k),
         norm |-> IF DirectHit(k) THEN DirectMap(k) ELSE <<>>]]
NormOf ==
    [c \in Answers |-> [k \in Keys |-> NormOfAnswer(c, k)]]

NoCall == [kind |-> "none", text |-> <<>>, orig |-> <<>>, ret |-> <<>>,
           path |-> "none", asked |-> FALSE, pre |-> <<>>]

RunHistoryReset ==
    /\ svc_calls' = [t \in TextIds |-> 0]
    /\ returned' = [t \in TextIds |-> {}]
    /\ answered' = [t \in TextIds |-> {}]
    /\ last' = NoCall

\* outcomes of  open(CACHE_PATH, "w") / json.dump : written, open raises
\* (file untouched), or the dump raises after n tokens
WriteOutcomes ==
    {[kind |-> "ok", n |-> 0], [kind |-> "open_fails", n |-> 0]}
    \cup {[kind |-> "dump_fails", n |-> k] : k \in 0..(MaxCalls + 2)}

CacheStart(files) ==
    /\ pc = "boot"
    /\ area_cache = <<>>
    /\ cache_file \in files
    /\ last = NoCall
    /\ svc_calls = [t \in TextIds |-> 0]
    /\ returned = [t \in TextIds |-> {}]
    /\ answered = [t \in TextIds |-> {}]
    /\ durable = {}
    /\ crashed = FALSE
    /\ ncalls = 0
    /\ nruns = 0

EmptyFields ==
    [type_ |-> <<>>, area_ |-> <<>>, amount |-> <<>>,
     start |-> <<>>, end |-> <<>>]

ExtractIdle ==
    /\ description = <<>>
    /\ result = [done |-> FALSE, out |-> EmptyFields]

MergeIdle ==
    /\ mpc = "idle"
    /\ orders = <<>>
    /\ rule_results = <<>>
    /\ extract_results = <<>>
    /\ llm_sent = <<>>
    /\ llm_out = <<>>
    /\ llm_ans = <<>>

FlowIdle ==
    /\ fpc = "idle"
    /\ flow_pairs = <<>>
    /\ flow_report = {}
    /\ flow_in = <<>>
    /\ flow_min = 0
    /\ flow_out = {}

NoTables ==
    [fine |-> {}, coarse |-> {}, area |-> {}, status |-> {}, late |-> {},
     driver |-> {}, amount |-> <<>>, score |-> <<>>]

ReportIdle ==
    /\ rpc = "idle"
    /\ records = <<>>
    /\ has_order_type = FALSE
    /\ fused = <<>>
    /\ report_tables = NoTables

CleanIdle ==
    /\ dpc = "idle"
    /\ raw_orders = <<>>
    /\ order_col = <<>>

InitCache ==
    /\ CacheStart(InitFiles)
    /\ ExtractIdle
    /\ MergeIdle
    /\ FlowIdle
    /\ ReportIdle
    /\ CleanIdle

\* lines 62-66: the module-level load of the cache at process start
LoadCache ==
    /\ pc = "boot"
    /\ nruns < MaxRuns
    /\ nruns' = nruns + 1
    /\ IF cache_file.exists
       THEN IF JsonWellFormed(cache_file.content)
            THEN /\ area_cache' = JsonLoad(cache_file.content)
                 /\ pc' = "run"
            ELSE /\ area_cache' = <<>>
                 /\ pc' = "fatal"
       ELSE /\ area_cache' = <<>>
            /\ pc' = "run"
    /\ RunHistoryReset
    /\ UNCHANGED <<cache_file, durable, crashed, ncalls>>
    /\ UNCHANGED <<evars, mvars, fvars, rvars, dvars>>

\* lines 68-99: one call of normalize_area(AllTexts[t]) that returns.
\* svc is the outcome of the service request and wr that of the file write,
\* when the call gets that far.
normalize_area(t, svc, wr) ==
    /\ pc = "run"
    /\ ncalls < MaxCalls
    /\ LET text == AllTexts[t]
           orig_text == StripOf[t]
           hit == DirectOf[orig_text].hit
           cached == InCache(area_cache, orig_text)
           path0 == LookupPath(hit, cached)
           asks == path0 = "miss"
           inserted == asks /\ ~svc.raise
           n1 == IF svc.raise THEN orig_text
                 ELSE NormOf[svc.content][orig_text]
           cache1 == IF inserted THEN CacheSet(area_cache, orig_text, n1)
                     ELSE area_cache
           dump == JsonDump(cache1)
           written == inserted /\ wr.kind = "ok"
           norm == IF path0 = "map" THEN DirectOf[orig_text].norm
                   ELSE IF path0 = "cache" THEN CacheGet(area_cache, orig_text)
                   ELSE IF written THEN n1
                   ELSE orig_text
           path == IF path0 # "miss" THEN path0
                   ELSE IF svc.raise THEN "llm_raise"
                   ELSE IF written THEN "llm" ELSE "write_raise"
       IN  /\ (inserted /\ wr.kind = "dump_fails") => wr.n < Len(dump)
           /\ area_cache' = cache1
           /\ cache_file' =
                 IF ~inserted \/ wr.kind = "open_fails" THEN cache_file
                 ELSE IF wr.kind = "ok" THEN FileOf(dump)
                 ELSE FileOf(SubSeq(dump, 1, wr.n))
           /\ last' = [kind |-> "call", text |-> text, orig |-> orig_text,
                       ret |-> norm, path |-> path, asked |-> asks,
                       pre |-> area_cache]
           /\ svc_calls' = IF asks
                           THEN [svc_calls EXCEPT ![t] = @ + 1]
                           ELSE svc_calls
           /\ returned' = [returned EXCEPT ![t] = @ \cup {norm}]
           /\ answered' = IF asks
                          THEN [answered EXCEPT ![KeyId[t]] = @ \cup {svc}]
                          ELSE answered
           /\ durable' = IF written THEN durable \cup {<<orig_text, n1>>}
                         ELSE durable
    /\ ncalls' = ncalls + 1
    /\ UNCHANGED <<pc, crashed, nruns>>
    /\ UNCHANGED <<evars, mvars, fvars, rvars, dvars>>

\* the process dies inside lines 91-92 of a normalize_area call: the file has
\* been truncated by open(..., "w") and n tokens of the dump have reached it
CrashInFlush(t, svc, n) ==
    /\ pc = "run"
    /\ ncalls < MaxCalls
    /\ ~svc.raise
    /\ LET orig_text == StripOf[t]
           cache1 == CacheSet(area_cache, orig_text,
                              NormOf[svc.content][orig_text])
       IN  /\ LookupPath(DirectOf[orig_text].hit,
                         InCache(area_cache, orig_text)) = "miss"
           /\ n < Len(JsonDump(cache1))
           /\ cache_file' = FileOf(SubSeq(JsonDump(cache1), 1, n))
    /\ pc' = "boot"
    /\ area_cache' = <<>>
    /\ crashed' = TRUE
    /\ ncalls' = ncalls + 1
    /\ RunHistoryReset
    /\ UNCHANGED <<durable, nruns>>
    /\ UNCHANGED <<evars, mvars, fvars, rvars, dvars>>

\* the process dies between two normalize_area calls (the file is as the
\* last completed write left it; the in-memory dict is lost)
Crash ==
    /\ pc = "run"
    /\ pc' = "boot"
    /\ area_cache' = <<>>
    /\ crashed' = TRUE
    /\ RunHistoryReset
    /\ UNCHANGED <<cache_file, durable, ncalls, nruns>>
    /\ UNCHANGED <<evars, mvars, fvars, rvars, dvars>>

NextCache ==
    \/ LoadCache
    \/ \E t \in RunTextIds, svc \in ServiceOutcomes, wr \in WriteOutcomes :
           normalize_area(t, svc, wr)
    \/ \E t \in RunTextIds, svc \in ServiceOutcomes, n \in 0..(MaxCalls + 2) :
           CrashInFlush(t, svc, n)
    \/ Crash

SpecCache == InitCache /\ [][NextCache]_vars

\* ----------------------------------------------------------------------
\* normalize_area applied to values that are already canonical
\* ----------------------------------------------------------------------
NextCanon ==
    \/ LoadCache
    \/ \E t \in CanonTextIds, svc \in ServiceOutcomes, wr \in WriteOutcomes :
           normalize_area(t, svc, wr)

SpecCanon == InitCache /\ [][NextCanon]_vars

\* ----------------------------------------------------------------------
\* Rule extraction of one description
\* ----------------------------------------------------------------------
InitExtract ==
    /\ CacheStart({NoFile})
    /\ description \in ExtractTexts \cup RegionTexts
    /\ result = [done |-> FALSE, out |-> EmptyFields]
    /\ MergeIdle
    /\ FlowIdle
    /\ ReportIdle
    /\ CleanIdle

\* line 148: extract_info applied to the description
ExtractInfo ==
    /\ ~result.done
    /\ result' = [done |-> TRUE, out |-> extract_info(description)]
    /\ UNCHANGED description
    /\ UNCHANGED <<cvars, mvars, fvars, rvars, dvars>>

NextExtract == ExtractInfo

SpecExtract == InitExtract /\ [][NextExtract]_vars

\* ----------------------------------------------------------------------
\* Rule extraction, classifier fallback and merge over the input table
\* ----------------------------------------------------------------------
\* extract_info and the answer parser, tabulated over the model's inputs
RuleOf == [k \in 1..Len(MergeTexts) |-> extract_info(MergeTexts[k])]
ParsedOf == [a \in 1..Len(LlmAnswers) |-> ParseAnswer(LlmAnswers[a])]

InitMerge ==
    /\ CacheStart({NoFile})
    /\ ExtractIdle
    /\ mpc = "rules"
    /\ orders \in UNION {[1..n -> 1..Len(MergeTexts)] : n \in 1..MaxRecords}
                  \cup LongTables
    /\ rule_results = <<>>
    /\ extract_results = <<>>
    /\ llm_sent = <<>>
    /\ llm_out = <<>>
    /\ llm_ans = <<>>
    /\ FlowIdle
    /\ ReportIdle
    /\ CleanIdle

\* line 150: df.loc[to_llm_idx, 订单概述].tolist()
LlmTargets == [j \in 1..Len(ToLlmIdx(rule_results)) |->
                  orders[ToLlmIdx(rule_results)[j]]]

\* lines 186-187: the items llm_extract is called with, batch after batch
LlmItems == ConcatBatches(Batches(LlmTargets))

\* lines 148-150 (and line 185 when nothing is unresolved)
RuleExtract ==
    /\ mpc = "rules"
    /\ LET res == [i \in 1..Len(orders) |-> RuleOf[orders[i]]]
       IN  /\ rule_results' = res
           /\ extract_results' = res
           /\ mpc' = IF ToLlmIdx(res) = <<>> THEN "merged" ELSE "llm"
    /\ UNCHANGED <<orders, llm_sent, llm_out, llm_ans>>
    /\ UNCHANGED <<cvars, evars, fvars, rvars, dvars>>

\* lines 154-182: one turn of llm_extract's loop, over the batches in order;
\* a = 0: the service call raises, a > 0: it answers LlmAnswers[a] (in a
\* table of LongTables the service raises or gives its first answer)
LlmExtractItem(a) ==
    /\ mpc = "llm"
    /\ Len(llm_out) < Len(LlmItems)
    /\ orders \in LongTables => a <= 1
    /\ LET j == Len(llm_out) + 1
           item == LlmItems[j]
       IN  /\ llm_sent' = Append(llm_sent, item)
           /\ llm_out' = Append(llm_out, LlmRowOf(a, ParsedOf))
    /\ llm_ans' = Append(llm_ans, a)
    /\ mpc' = LoopAfter(a)
    /\ UNCHANGED <<orders, rule_results, extract_results>>
    /\ UNCHANGED <<cvars, evars, fvars, rvars, dvars>>

\* line 188: the classifier rows written over the unresolved rows
Merge ==
    /\ mpc = "llm"
    /\ Len(llm_out) = Len(LlmItems)
    /\ LET idx == ToLlmIdx(rule_results)
       IN  extract_results' =
               [i \in 1..Len(extract_results) |->
                   IF \E j \in 1..Len(idx) : idx[j] = i
                   THEN MergeRow(extract_results[i],
                                 llm_out[CHOOSE j \in 1..Len(idx) : idx[j] = i])
                   ELSE extract_results[i]]
    /\ mpc' = "merged"
    /\ UNCHANGED <<orders, rule_results, llm_sent, llm_out, llm_ans>>
    /\ UNCHANGED <<cvars, evars, fvars, rvars, dvars>>

NextMerge ==
    \/ RuleExtract
    \/ \E a \in 0..Len(LlmAnswers) : LlmExtractItem(a)
    \/ Merge

SpecMerge == InitMerge /\ [][NextMerge]_vars

\* the script runs on while a statement is left to run
SpecMergeLive == SpecMerge /\ WF_vars(NextMerge)

\* ----------------------------------------------------------------------
\* Flow tables
\* ----------------------------------------------------------------------
InitFlow ==
    /\ CacheStart({NoFile})
    /\ ExtractIdle
    /\ MergeIdle
    /\ fpc = "build"
    /\ flow_pairs = <<>>
    /\ flow_report = {}
    /\ flow_in = <<>>
    /\ flow_min = 0
    /\ flow_out = {}
    /\ ReportIdle
    /\ CleanIdle

\* one more canonical record with the pair FlowPairs[k] (the records are
\* taken in index order: the tables do not depend on the row order)
AddRecord(k) ==
    /\ fpc = "build"
    /\ flow_in = <<>>
    /\ Len(flow_pairs) < MaxFlowRecords
    /\ flow_pairs # <<>> => flow_pairs[Len(flow_pairs)] <= k
    /\ flow_pairs' = Append(flow_pairs, k)
    /\ UNCHANGED <<fpc, flow_report, flow_in, flow_min, flow_out>>
    /\ UNCHANGED <<cvars, evars, mvars, rvars, dvars>>

\* data_analysis_business.py lines 299-301: the 流向统计 table
FlowStats ==
    /\ fpc = "build"
    /\ flow_pairs # <<>>
    /\ flow_report' =
           FlowStatsOf([i \in 1..Len(flow_pairs) |-> FlowPairs[flow_pairs[i]]])
    /\ fpc' = "report"
    /\ UNCHANGED <<flow_pairs, flow_in, flow_min, flow_out>>
    /\ UNCHANGED <<cvars, evars, mvars, rvars, dvars>>

\* visualize_business.py main, lines 244-253: sheets["流向统计"] read back
LoadSheet ==
    /\ fpc = "report"
    /\ flow_in' = SheetRows(flow_report)
    /\ fpc' = "loaded"
    /\ UNCHANGED <<flow_pairs, flow_report, flow_min, flow_out>>
    /\ UNCHANGED <<cvars, evars, mvars, rvars, dvars>>

\* demo.py lines 114-115: a table supplied directly, one more row of it
AddRow(k) ==
    /\ fpc = "build"
    /\ flow_pairs = <<>>
    /\ Len(flow_in) < MaxFlowRows
    /\ \A i \in 1..Len(flow_in) :
           \E j \in 1..k : flow_in[i] = FlowRows[j]
    /\ flow_in' = Append(flow_in, FlowRows[k])
    /\ UNCHANGED <<fpc, flow_pairs, flow_report, flow_min, flow_out>>
    /\ UNCHANGED <<cvars, evars, mvars, rvars, dvars>>

\* visualize_business.py lines 142-171: chart_flow(df, min_value)
chart_flow(min_value) ==
    /\ fpc = "loaded" \/ (fpc = "build" /\ flow_in # <<>>)
    /\ flow_out' = FlowFilter(flow_in, min_value)
    /\ flow_min' = min_value
    /\ fpc' = "charted"
    /\ UNCHANGED <<flow_pairs, flow_report, flow_in>>
    /\ UNCHANGED <<cvars, evars, mvars, rvars, dvars>>

\* demo.py lines 126-139: df_clean, the same filter with the threshold 3
df_clean ==
    /\ fpc = "loaded" \/ (fpc = "build" /\ flow_in # <<>>)
    /\ flow_out' = FlowFilter(flow_in, DefaultMinValue)
    /\ flow_min' = DefaultMinValue
    /\ fpc' = "cleaned"
    /\ UNCHANGED <<flow_pairs, flow_report, flow_in>>
    /\ UNCHANGED <<cvars, evars, mvars, rvars, dvars>>

NextFlow ==
    \/ \E k \in 1..Len(FlowPairs) : AddRecord(k)
    \/ FlowStats
    \/ LoadSheet
    \/ \E k \in 1..Len(FlowRows) : AddRow(k)
    \/ \E min_value \in MinValues : chart_flow(min_value)
    \/ df_clean

SpecFlow == InitFlow /\ [][NextFlow]_vars

\* ----------------------------------------------------------------------
\* 字段融合 and the distribution tables
\* ----------------------------------------------------------------------
InitReport ==
    /\ CacheStart({NoFile})
    /\ ExtractIdle
    /\ MergeIdle
    /\ FlowIdle
    /\ rpc = "build"
    /\ records = <<>>
    /\ has_order_type \in BOOLEAN
    /\ fused = <<>>
    /\ report_tables = NoTables
    /\ CleanIdle

\* one more row of df (rows are taken in index order: the tables do not
\* depend on the row order)
AddReportRow(k) ==
    /\ rpc = "build"
    /\ Len(records) < MaxReportRows
    /\ records # <<>> => records[Len(records)] <= k
    /\ records' = Append(records, k)
    /\ UNCHANGED <<rpc, has_order_type, fused, report_tables>>
    /\ UNCHANGED <<cvars, evars, mvars, fvars, dvars>>

\* lines 212-215
Fuse ==
    /\ rpc = "build"
    /\ fused' = [i \in 1..Len(records) |->
                    LET r == ReportRows[records[i]]
                    IN  [fine |-> FuseRow(r.struct, r.coarse, has_order_type),
                         coarse |-> CoarseOf(r.coarse, has_order_type)]]
    /\ rpc' = "fused"
    /\ UNCHANGED <<records, has_order_type, report_tables>>
    /\ UNCHANGED <<cvars, evars, mvars, fvars, dvars>>

\* lines 225-297: the distribution tables (the table has the columns
\* 订单状态, 是否迟到, 司机 and 客户评分; 金额_struct is always there)
BuildReports ==
    /\ rpc = "fused"
    /\ LET col(f) == [i \in 1..Len(records) |-> ReportRows[records[i]][f]]
       IN  report_tables' =
               [fine |-> ValueCounts([i \in 1..Len(fused) |-> fused[i].fine]),
                coarse |-> ValueCounts([i \in 1..Len(fused) |-> fused[i].coarse]),
                area |-> ValueCounts(col("area")),
                status |-> ValueCounts(col("status")),
                late |-> ValueCounts(col("late")),
                driver |-> ValueCounts(col("driver")),
                amount |-> BinCounts(col("amount"), AmountEdges, TRUE),
                score |-> BinCounts(col("score"), ScoreEdges, FALSE)]
    /\ rpc' = "reported"
    /\ UNCHANGED <<records, has_order_type, fused>>
    /\ UNCHANGED <<cvars, evars, mvars, fvars, dvars>>

NextReport ==
    \/ \E k \in 1..Len(ReportRows) : AddReportRow(k)
    \/ Fuse
    \/ BuildReports

SpecReport == InitReport /\ [][NextReport]_vars

\* ----------------------------------------------------------------------
\* The cleaning script on the column 订单编号
\* ----------------------------------------------------------------------
InitClean ==
    /\ CacheStart({NoFile})
    /\ ExtractIdle
    /\ MergeIdle
    /\ FlowIdle
    /\ ReportIdle
    /\ dpc = "raw"
    /\ raw_orders = <<>>
    /\ order_col = <<>>

\* load_raw: one more row of the raw file (rows are taken in index order:
\* the steps do not depend on the row order)
AddRawRow(k) ==
    /\ dpc = "raw"
    /\ Len(raw_orders) < MaxCleanRows
    /\ raw_orders # <<>> => raw_orders[Len(raw_orders)] <= k
    /\ raw_orders' = Append(raw_orders, k)
    /\ order_col' = Append(order_col, OrderNumbers[k])
    /\ UNCHANGED dpc
    /\ UNCHANGED <<cvars, evars, mvars, fvars, rvars>>

\* lines 150-162: of the steps of run_basic_pipeline only normalize_na
\* touches 订单编号
run_basic_pipeline ==
    /\ dpc = "raw"
    /\ order_col' = [i \in 1..Len(order_col) |-> NormalizeNaCell(order_col[i])]
    /\ dpc' = "basic"
    /\ UNCHANGED raw_orders
    /\ UNCHANGED <<cvars, evars, mvars, fvars, rvars>>

\* lines 291-300 of clean_business_core, called by main on the result of
\* run_basic_pipeline
clean_business_core ==
    /\ dpc = "basic"
    /\ order_col' = OrderNumberStep(order_col)
    /\ dpc' = "cleaned"
    /\ UNCHANGED raw_orders
    /\ UNCHANGED <<cvars, evars, mvars, fvars, rvars>>

NextClean ==
    \/ \E k \in 1..Len(OrderNumbers) : AddRawRow(k)
    \/ run_basic_pipeline
    \/ clean_business_core

SpecClean == InitClean /\ [][NextClean]_vars

\* ----------------------------------------------------------------------
\* Properties of the flow tables (checked under SpecFlow)
\* ----------------------------------------------------------------------

\* C4: no flow table the program produces - the 流向统计 table or the
\* table filtered for the Sankey chart - holds a row whose origin equals
\* its destination after whitespace stripping.
C4_NoSelfLoopInAnyFlowTable ==
    /\ \A r \in flow_report : Strip(r.src.s) # Strip(r.tgt.s)
    /\ \A r \in flow_out : r.src # r.tgt

\* the origins and destinations of the input, stripped
FlowNodes ==
    {Strip(flow_in[i].src.s) : i \in {j \in 1..Len(flow_in) : ~flow_in[j].src.na}}
    \cup
    {Strip(flow_in[i].tgt.s) : i \in {j \in 1..Len(flow_in) : ~flow_in[j].tgt.na}}

\* the sum of the numeric volumes of the input rows of the pair (s, t)
PairVolume(s, t) ==
    SumOver(flow_in,
            {i \in 1..Len(flow_in) :
                /\ ~flow_in[i].src.na /\ Strip(flow_in[i].src.s) = s
                /\ ~flow_in[i].tgt.na /\ Strip(flow_in[i].tgt.s) = t
                /\ flow_in[i].val.kind = "num"})

\* C5: a pair with origin # destination is in the filtered table if and
\* only if the sum of the numeric volumes of all its input rows is >= the
\* threshold, and the table shows that sum.
C5_ThresholdOnGroupedSum ==
    fpc \in {"charted", "cleaned"} =>
        /\ \A s \in FlowNodes, t \in FlowNodes :
               s # t =>
                   ((\E r \in flow_out : r.src = s /\ r.tgt = t)
                       <=> PairVolume(s, t) >= flow_min)
        /\ \A r \in flow_out :
               /\ r.src \in FlowNodes /\ r.tgt \in FlowNodes
               /\ r.val = PairVolume(r.src, r.tgt)

\* volumes 5, 2 and 3 on three distinct pairs, threshold 3: the pairs with
\* 5 and 3 are kept, the pair with 2 is dropped
C5_Witness ==
    /\ fpc = "charted"
    /\ flow_min = 3
    /\ flow_in = <<FlowRows[2], FlowRows[3], FlowRows[5]>>
    /\ flow_out = {[src |-> FlowRows[2].src.s, tgt |-> FlowRows[2].tgt.s, val |-> 5],
                   [src |-> FlowRows[5].src.s, tgt |-> FlowRows[5].tgt.s, val |-> 3]}

\* ----------------------------------------------------------------------
\* Properties of the merge (checked under SpecMerge)
\* ----------------------------------------------------------------------

\* C1: after the merge, every unresolved row keeps each field that rule
\* extraction left non-empty; the classifier's value is used only for a
\* field that was empty, whatever the classifier returned.
C1_RulesTakePrecedence ==
    mpc = "merged" =>
        \A i \in 1..Len(rule_results) :
            /\ rule_results[i].type_ # <<>> =>
                   extract_results[i].type_ = rule_results[i].type_
            /\ rule_results[i].area_ # <<>> =>
                   extract_results[i].area_ = rule_results[i].area_

\* ----------------------------------------------------------------------
\* Properties of extract_info (checked under SpecExtract)
\* ----------------------------------------------------------------------

\* C3: the scenario text yields category 接送机, origin exactly
\* "密西沙加 Square One", destination exactly "Toronto downtown", amount "80".
C3_ScenarioFields ==
    (result.done /\ description = ScenarioText) =>
        /\ result.out.type_ = <<"U+63A5", "U+9001", "U+673A">>  \* 接送机
        /\ result.out.start = <<"U+5BC6", "U+897F", "U+6C99", "U+52A0", " ", "S", "q", "u", "a", "r", "e", " ", "O", "n", "e">>  \* 密西沙加 Square One
        /\ result.out.end = <<"T", "o", "r", "o", "n", "t", "o", " ", "d", "o", "w", "n", "t", "o", "w", "n">>
        /\ result.out.amount = <<"8", "0">>

\* ----------------------------------------------------------------------
\* Properties of the normalisation cache (checked under SpecCache)
\* ----------------------------------------------------------------------

\* C2: in one run no raw string is sent to the fallback service twice by
\* normalize_area, whatever the outcome of its first call was.
C2_AtMostOneServiceCall ==
    \A t \in TextIds : svc_calls[t] <= 1

EntriesOnDisk ==
    IF cache_file.exists /\ JsonWellFormed(cache_file.content)
    THEN JsonLoad(cache_file.content)
    ELSE <<>>

\* C6: write-through - whenever a normalize_area call has returned, the
\* persisted file holds every entry of the in-memory cache.
C6_WriteThrough ==
    (pc = "run" /\ last.kind = "call") =>
        \A i \in 1..Len(area_cache) :
            /\ InCache(EntriesOnDisk, area_cache[i][1])
            /\ CacheGet(EntriesOnDisk, area_cache[i][1]) = area_cache[i][2]

\* C7: after a crash, the next run loads every entry whose insert (with its
\* file write) had completed before the crash.
C7_CrashKeepsCompletedInserts ==
    (crashed /\ pc \in {"run", "fatal"}) =>
        \A e \in durable :
            /\ pc = "run"
            /\ InCache(area_cache, e[1])
            /\ CacheGet(area_cache, e[1]) = e[2]

\* the key of a string after case and whitespace normalisation
NormKey(s) == ToLower(Strip(s))

\* what a lookup that is served without the service returns for a key the
\* cache held before the call
ServedValue(c) ==
    IF DirectOf[c.orig].hit THEN DirectOf[c.orig].norm
    ELSE CacheGet(c.pre, c.orig)

\* C8 (as stated): once a raw string has a cache entry, a lookup of any string
\* equal to it after case and whitespace normalisation is answered from that
\* entry without a service call.
C8_CaseInsensitiveEntry ==
    last.kind = "call" =>
        \A k \in CacheKeys(last.pre) :
            NormKey(k) = NormKey(last.text) =>
                /\ ~last.asked
                /\ \/ last.ret = CacheGet(last.pre, k)
                   \/ DirectOf[last.orig].hit

\* C8 (amended): once a raw string has a cache entry, a lookup of any string
\* equal to it after stripping leading and trailing whitespace (case kept) is
\* answered without a service call, with the entry's value (the alias table's
\* value when the string contains an alias), and leaves the cache as it was.
C8_ExactTrimmedEntry ==
    last.kind = "call" =>
        \A k \in CacheKeys(last.pre) :
            k = Strip(last.text) =>
                /\ ~last.asked
                /\ last.ret = ServedValue(last)
                /\ area_cache = last.pre

\* a padded string was answered from the entry of its trimmed form
C8_Witness ==
    /\ last.kind = "call"
    /\ last.text = T_HamiltonPadded
    /\ last.path = "cache"
    /\ last.ret = CacheGet(last.pre, T_Hamilton)

\* C9: in one run every normalize_area call with the same raw string returns
\* the same value, provided the service gave one and the same outcome each
\* time it was asked about that string.
C9_SameValueEveryCall ==
    \A t \in TextIds :
        Cardinality(answered[KeyId[t]]) <= 1 =>
            Cardinality(returned[t]) <= 1

\* C10: a string that contains a known alias gets the direct-mapping value,
\* also when the cache holds another value for the very same string; the
\* cache entry is not consulted.
C10_DirectMappingWins ==
    (last.kind = "call" /\ DirectOf[last.orig].hit) =>
        /\ last.ret = DirectOf[last.orig].norm
        /\ last.path = "map"
        /\ ~last.asked

\* an alias-bearing string whose cache entry differs from the alias value
C10_Witness ==
    /\ last.kind = "call"
    /\ DirectOf[last.orig].hit
    /\ InCache(last.pre, last.orig)
    /\ CacheGet(last.pre, last.orig) # DirectOf[last.orig].norm
    /\ last.ret = DirectOf[last.orig].norm

\* C11: a normalize_area call whose stripped text contains a known alias
\* changes neither the in-memory cache nor the cache file and makes no
\* service call.
C11_DirectHitNoSideEffect ==
    [][(ncalls' = ncalls + 1 /\ pc' = "run" /\ DirectOf[last'.orig].hit)
          => /\ area_cache' = area_cache
             /\ cache_file' = cache_file
             /\ svc_calls' = svc_calls
             /\ ~last'.asked]_vars

\* a call with an alias-bearing text has returned in a run whose cache held
\* entries, the text itself not among them
C11_Witness ==
    /\ last.kind = "call"
    /\ DirectOf[last.orig].hit
    /\ last.pre # <<>>
    /\ ~InCache(last.pre, last.orig)
    /\ area_cache = last.pre

\* ----------------------------------------------------------------------
\* Properties of llm_extract and the batches (checked under SpecMergeLive
\* and SpecMerge)
\* ----------------------------------------------------------------------

\* C12: a service failure on one item does not stop the run: the run reaches
\* the merge, llm_out has one row per unresolved record, the row of an item
\* whose call raised is the empty row, and every other item has the row
\* parsed from its own answer.
C12_FailureDoesNotAbort ==
    /\ [](/\ mpc # "aborted"
          /\ Len(llm_out) = Len(llm_ans)
          /\ \A j \in 1..Len(llm_ans) :
                 llm_out[j] = IF llm_ans[j] = 0 THEN EmptyRow
                              ELSE ParsedOf[llm_ans[j]]
          /\ (mpc = "merged" /\ LlmTargets # <<>>) =>
                 Len(llm_out) = Len(LlmTargets))
    /\ <>(mpc = "merged")

\* a table of two batches: the third call of the first batch raised, every
\* other item of both batches was answered, and the run reached the merge
C12_Witness ==
    /\ mpc = "merged"
    /\ Len(LlmTargets) > BatchSize
    /\ Len(llm_ans) = Len(LlmTargets)
    /\ llm_ans[3] = 0
    /\ \A j \in 1..Len(llm_ans) : j # 3 => llm_ans[j] = 1 /\ llm_out[j] # EmptyRow

\* C13: after the merge, for every j the j-th unresolved row holds the row
\* llm_extract made from the outcome of the j-th service call, and that
\* call was made with the row's own 订单概述.
C13_ResultsAligned ==
    mpc = "merged" =>
        LET idx == ToLlmIdx(rule_results)
        IN  \A j \in 1..Len(idx) :
                /\ llm_sent[j] = orders[idx[j]]
                /\ extract_results[idx[j]].type_ = LlmRowOf(llm_ans[j], ParsedOf).type_
                /\ extract_results[idx[j]].area_ = LlmRowOf(llm_ans[j], ParsedOf).area_

\* a table of two batches in which only the call of the second batch's item
\* raised: after the merge that row, and no other unresolved row, is empty
C13_Witness ==
    /\ mpc = "merged"
    /\ Len(LlmTargets) = BatchSize + 1
    /\ Len(llm_ans) = BatchSize + 1
    /\ llm_ans[BatchSize + 1] = 0
    /\ \A j \in 1..BatchSize : llm_ans[j] = 1
    /\ LET idx == ToLlmIdx(rule_results)
       IN  \A j \in 1..Len(idx) :
               (extract_results[idx[j]].type_ = <<>>) <=> (j = BatchSize + 1)

\* C14: a row whose rule category and rule region are both non-empty is
\* never handed to the service and keeps both rule values through the merge.
C14_OnlyUnresolvedSent ==
    /\ \A j \in 1..Len(llm_sent) :
           RuleOf[llm_sent[j]].type_ = <<>> \/ RuleOf[llm_sent[j]].area_ = <<>>
    /\ Len(llm_sent) <= Len(ToLlmIdx(rule_results))
    /\ \A i \in 1..Len(rule_results) :
           (rule_results[i].type_ # <<>> /\ rule_results[i].area_ # <<>>) =>
               /\ extract_results[i].type_ = rule_results[i].type_
               /\ extract_results[i].area_ = rule_results[i].area_

\* a resolved row followed by an unresolved one; the service gave a full
\* answer for the unresolved row and the merge has run
C14_Witness ==
    /\ mpc = "merged"
    /\ Len(orders) = 2
    /\ rule_results[1].type_ # <<>> /\ rule_results[1].area_ # <<>>
    /\ llm_ans = <<1>>
    /\ extract_results[2].type_ = ParsedOf[1].type_
    /\ extract_results[2] # rule_results[2]

\* C15: a row with an empty 订单概述 has all-empty rule fields and causes no
\* service call: every description handed to llm_extract is non-empty.
C15_EmptyDescriptionNotSent ==
    /\ \A i \in 1..Len(rule_results) :
           MergeTexts[orders[i]] = <<>> =>
               /\ rule_results[i].type_ = <<>> /\ rule_results[i].area_ = <<>>
               /\ rule_results[i].amount = <<>>
               /\ rule_results[i].start = <<>> /\ rule_results[i].end = <<>>
    /\ \A j \in 1..Len(llm_sent) : MergeTexts[llm_sent[j]] # <<>>

\* the shape the prompt of lines 156-160 asks for: two lines, the first
\* 业务类型 and a colon, the second 区域 and a colon, nothing else
TwoLineShape(content) ==
    LET ans == Strip(content)
        nl == {p \in 1..Len(ans) : ans[p] = "\n"}
    IN  /\ Cardinality(nl) = 1
        /\ LET p == CHOOSE q \in nl : TRUE
               first == SubSeq(ans, 1, p - 1)
               second == SubSeq(ans, p + 1, Len(ans))
           IN  /\ Len(first) > Len(LabelType) + 1
               /\ MatchAt(first, LabelType, 1)
               /\ first[Len(LabelType) + 1] \in {":", "U+FF1A"}  \* ：
               /\ Len(second) > Len(LabelArea) + 1
               /\ MatchAt(second, LabelArea, 1)
               /\ second[Len(LabelArea) + 1] \in {":", "U+FF1A"}  \* ：

\* C16: an answer that is not of the two-line shape yields the empty row
\* (empty category and empty region), never a partly filled row.
C16_MalformedAnswerYieldsEmpty ==
    \A j \in 1..Len(llm_ans) :
        (llm_ans[j] > 0 /\ ~TwoLineShape(LlmAnswers[llm_ans[j]])) =>
            llm_out[j] = EmptyRow

\* the rules of lines 104-117 whose keyword occurs in each description
RuleHits == [k \in 1..Len(MergeTexts) |->
                {r \in 1..Len(TypeRules) : RuleMatches(MergeTexts[k], r)}]

\* C17: the category of a record is that of the first rule, in the rule
\* order, whose keyword occurs in its description; with a pickup/dropoff
\* keyword and an errand keyword both present it is 接送机.
C17_FirstRuleWins ==
    mpc = "merged" =>
        \A i \in 1..Len(extract_results) :
            LET hits == RuleHits[orders[i]]
            IN  /\ hits # {} =>
                       extract_results[i].type_ = TypeRules[Min(hits)][2]
                /\ (1 \in hits /\ 3 \in hits) =>
                       extract_results[i].type_ = TypeRules[1][2]

\* ----------------------------------------------------------------------
\* Properties of 字段融合 and the distribution tables (checked under
\* SpecReport)
\* ----------------------------------------------------------------------

\* C18: 业务类型_结构化 of every record is the derived category when that is
\* not empty, else the 订单类型 value when the column exists, else empty.
C18_DerivedCategoryFirst ==
    rpc \in {"fused", "reported"} =>
        /\ Len(fused) = Len(records)
        /\ \A i \in 1..Len(records) :
               LET r == ReportRows[records[i]]
               IN  fused[i].fine =
                       IF r.struct # <<>> THEN r.struct
                       ELSE IF has_order_type THEN r.coarse
                       ELSE <<>>

\* a table with the column 订单类型 holding a row whose derived category
\* differs from its 订单类型 and a row with no derived category
C18_Witness ==
    /\ rpc = "fused"
    /\ has_order_type
    /\ \E i \in 1..Len(records) :
           /\ ReportRows[records[i]].struct # <<>>
           /\ ReportRows[records[i]].coarse # <<>>
           /\ ReportRows[records[i]].coarse # ReportRows[records[i]].struct
           /\ fused[i].fine = ReportRows[records[i]].struct
    /\ \E i \in 1..Len(records) :
           /\ ReportRows[records[i]].struct = <<>>
           /\ fused[i].fine = ReportRows[records[i]].coarse
           /\ fused[i].fine # <<>>

\* the sum of the counts of a value_counts table
TotalCount(vc) ==
    LET n == Cardinality(vc)
        q == CHOOSE f \in [1..n -> vc] : {f[i] : i \in 1..n} = vc
        F[i \in 0..n] == IF i = 0 THEN 0 ELSE F[i - 1] + q[i][2]
    IN  F[n]

\* the sum of the counts of a table of bins
TotalBinned(counts) ==
    LET F[i \in 0..Len(counts)] == IF i = 0 THEN 0 ELSE F[i - 1] + counts[i]
    IN  F[Len(counts)]

\* C19: in each categorical distribution table (业务类型_结构化, 业务类型_大类,
\* 区域归一, 订单状态, 是否迟到, 司机) the counts add up to the number of
\* records.
C19_CountsSumToRecords ==
    rpc = "reported" =>
        /\ TotalCount(report_tables.fine) = Len(records)
        /\ TotalCount(report_tables.coarse) = Len(records)
        /\ TotalCount(report_tables.area) = Len(records)
        /\ TotalCount(report_tables.status) = Len(records)
        /\ TotalCount(report_tables.late) = Len(records)
        /\ TotalCount(report_tables.driver) = Len(records)

\* tables over three records, one of which has an empty region, an empty
\* lateness and an empty driver: the empty value has a row of its own
C19_Witness ==
    /\ rpc = "reported"
    /\ Len(records) = 3
    /\ <<<<>>, 1>> \in report_tables.area
    /\ <<<<>>, 1>> \in report_tables.late
    /\ <<<<>>, 1>> \in report_tables.driver
    /\ Cardinality(report_tables.area) = 3

\* C20: every amount and every rating that is a number at or above the
\* lowest bin edge is counted in exactly one bin (the top bin has no upper
\* limit that excludes a value: 1000 and more count in 1000+, the rating 10
\* counts in 8-10).
C20_EveryValueBinned ==
    rpc = "reported" =>
        /\ TotalBinned(report_tables.amount) =
               Cardinality({i \in 1..Len(records) :
                   LET v == try_to_float(ReportRows[records[i]].amount)
                   IN  v.ok /\ v.int >= AmountEdges[1]})
        /\ TotalBinned(report_tables.score) =
               Cardinality({i \in 1..Len(records) :
                   LET v == try_to_float(ReportRows[records[i]].score)
                   IN  v.ok /\ v.int >= ScoreEdges[1]})

\* ----------------------------------------------------------------------
\* Further properties of the cache (checked under SpecCache)
\* ----------------------------------------------------------------------

\* C21: a start that finds no cache file, or a zero-length one, goes on with
\* an empty cache; the start fails only on a file that is not empty and
\* cannot be parsed.
C21_Bootstrap ==
    /\ (pc = "run" /\ last = NoCall /\ ncalls = 0 /\ nruns = 1
          /\ (~cache_file.exists \/ cache_file.content = <<>>))
           => area_cache = <<>>
    /\ pc = "fatal" =>
           /\ cache_file.exists
           /\ cache_file.content # <<>>
           /\ ~JsonWellFormed(cache_file.content)

\* ----------------------------------------------------------------------
\* Further properties of llm_extract (checked under SpecMerge)
\* ----------------------------------------------------------------------

\* C22: the k-th service call of a run is the call for the k-th unresolved
\* record, whether earlier calls raised or not: no record's description is
\* submitted a second time, and at the merge each has been submitted once.
C22_NoRetry ==
    /\ Len(llm_sent) <= Len(LlmTargets)
    /\ \A j \in 1..Len(llm_sent) : llm_sent[j] = LlmTargets[j]
    /\ (mpc = "merged" /\ LlmTargets # <<>>) => Len(llm_sent) = Len(LlmTargets)

\* two batches; the call of the last item of the first batch raised and the
\* next call was the one of the second batch's item, which was answered
C22_Witness ==
    /\ mpc = "merged"
    /\ Len(LlmTargets) = BatchSize + 1
    /\ Len(llm_sent) = BatchSize + 1
    /\ llm_ans[BatchSize] = 0
    /\ llm_ans[BatchSize + 1] = 1
    /\ llm_sent[BatchSize] # llm_sent[BatchSize + 1]

\* C23: within a run, a step leaves every entry of the in-memory cache in
\* place with its value; entries are only added.
C23_EntriesImmutable ==
    [][(pc = "run" /\ pc' = "run") =>
          \A i \in 1..Len(area_cache) :
              /\ InCache(area_cache', area_cache[i][1])
              /\ CacheGet(area_cache', area_cache[i][1]) = area_cache[i][2]]_vars

\* a call has added a second entry to a cache that held one, and a later
\* lookup of the first key would still find the value it had
C23_Witness ==
    /\ pc = "run"
    /\ last.kind = "call"
    /\ last.asked
    /\ Len(last.pre) = 1
    /\ Len(area_cache) = 2
    /\ CacheGet(area_cache, last.pre[1][1]) = last.pre[1][2]

\* ----------------------------------------------------------------------
\* Region words and the alias table (checked under SpecExtract)
\* ----------------------------------------------------------------------

\* C24: a non-empty region returned by extract_info contains an alias of
\* AREA_MAP, so that normalize_area resolves it by the table.
C24_ExtractedRegionMapped ==
    (result.done /\ result.out.area_ # <<>>) =>
        LookupPath(DirectHit(Strip(result.out.area_)), FALSE) = "map"

\* ----------------------------------------------------------------------
\* Canonical names (checked under SpecCanon)
\* ----------------------------------------------------------------------

\* C25: for every value v of AREA_MAP, normalize_area(v) returns v by the
\* alias table, without consulting the cache or the service.
C25_CanonicalFixedPoint ==
    (last.kind = "call" /\ \E i \in 1..Len(AREA_MAP) : AREA_MAP[i][2] = last.text)
        => /\ last.ret = last.text
           /\ last.path = "map"
           /\ ~last.asked

\* ----------------------------------------------------------------------
\* Empty location strings (checked under SpecCache)
\* ----------------------------------------------------------------------

\* C26: a normalize_area call whose text is empty or whitespace only makes
\* no service call and adds nothing to the cache.
C26_EmptyTextNoServiceCall ==
    (last.kind = "call" /\ Strip(last.text) = <<>>) =>
        /\ ~last.asked
        /\ area_cache = last.pre

\* ----------------------------------------------------------------------
\* Order numbers after cleaning (checked under SpecClean)
\* ----------------------------------------------------------------------

\* the raw order number is missing: NaN or empty
RawMissing(c) == c.na \/ Strip(c.s) = <<>>

\* C27: after run_basic_pipeline and clean_business_core, a row holds
\* 订单编号重复 only if its raw order number was not missing and another row
\* had the same one, and every row whose raw order number was missing holds
\* 缺失.
C27_DuplicateOnlyIfShared ==
    dpc = "cleaned" =>
        \A i \in 1..Len(raw_orders) :
            LET c == OrderNumbers[raw_orders[i]]
            IN  /\ order_col[i] = Str(V_Duplicate) =>
                       /\ ~RawMissing(c)
                       /\ \E j \in 1..Len(raw_orders) :
                              /\ j # i
                              /\ ~RawMissing(OrderNumbers[raw_orders[j]])
                              /\ Strip(OrderNumbers[raw_orders[j]].s) = Strip(c.s)
                /\ RawMissing(c) => order_col[i] = Str(V_Missing)

====
